---- MODULE Spec2Model ----
(***************************************************************************)
(* Model of the notification delivery core of                              *)
(* koungkub/fw-challenge-notification-service:                             *)
(*   service.NotificationService  (SendToBuyer, SendToSeller,              *)
(*                                 getNotificationPreferences,             *)
(*                                 sendNotification)                       *)
(*   client.HTTPClient.Post, client.CircuitBreakerRegistry                 *)
(*   repository.Cache, repository.Persistent                               *)
(* The circuit breaker is sony/gobreaker v2 as configured by               *)
(* NewCircuitBreakerRegistry (no Interval, no IsSuccessful).               *)
(***************************************************************************)
EXTENDS Integers, Sequences, FiniteSets, TLC

(***************************************************************************)
(* Bounds of the exploration.                                              *)
(***************************************************************************)
\* number of SendToBuyer / SendToSeller / direct sendNotification calls
MaxCalls == 2
\* number of getNotificationPreferences calls two goroutines make between them
MaxResolves == 3
\* number of GetOrCreate calls two goroutines make on a registry between them
MaxGets == 4
\* number of Execute calls one goroutine makes on a breaker, one after the other
MaxExecutes == 8
\* number of Execute calls two goroutines make on a breaker between them
MaxOverlapping == 5

(***************************************************************************)
(* Fixed data.                                                             *)
(***************************************************************************)
Threads == {1, 2}

EmailProvider == "Email"
PushNotificationProvider == "PushNotification"
Channels == {EmailProvider, PushNotificationProvider}

Hosts == {"a.example", "b.example"}

\* A URL is <<scheme, host, path>>; the Host column of a preference holds one.
URL(h, p) == <<"https", h, p>>

\* url.Parse(u).Host
extractHost(u) == u[2]

\* client.NotificationRequest as SendToBuyer and SendToSeller build it from
\* their arguments: the secret is not set yet
NotificationRequest(to, title, message) ==
    [To |-> to, Title |-> title, Message |-> message, SecretKey |-> ""]

\* the arguments of the calls
CallerRequest == NotificationRequest("user@example.com", "Order", "Your order")

\* errors, by message
Nil == "nil"
NoError == "none"
ErrOpenState == "circuit breaker is open"
ErrTooManyRequests == "too many requests"
ErrCanceled == "context canceled"
ErrTransport == "transport error"
ErrNot200 == "response status code not equal 200"
ErrAggregate == "failure to sent the notifications"
ErrRecordNotFound == "record not found"
ErrDatabase == "database error"
ErrCacheSet == "cache set error"

(***************************************************************************)
(* Circuit breaker settings: the defaults of CircuitBreakerRegistryConfig  *)
(* and the settings the repository's tests run with.  The two durations,   *)
(* OpenStateTimeout and the cache's ExpiredTime, are not numbers here: a   *)
(* duration running out is an action of its own (OpenTimeoutElapses,       *)
(* CacheExpire), so every placement of the deadlines is explored.          *)
(***************************************************************************)
DefaultConfig ==
    [MaxHalfOpenRequests |-> 5,
     MinRequestsBeforeTrip |-> 3, FailureThresholdPercent |-> 60]

TestConfig ==
    [MaxHalfOpenRequests |-> 1,
     MinRequestsBeforeTrip |-> 2, FailureThresholdPercent |-> 50]

Configs == {DefaultConfig, TestConfig}

\* the settings of the registry's own trip test: the default trip policy with
\* one half-open request
IntegrationConfig ==
    [MaxHalfOpenRequests |-> 1,
     MinRequestsBeforeTrip |-> 3, FailureThresholdPercent |-> 60]

BreakerConfigs == Configs \cup {IntegrationConfig}

(***************************************************************************)
(* The notification_preferences table.  A row is deleted when deleted_at   *)
(* is set.                                                                 *)
(***************************************************************************)
Row(id, pt, h, p, prio, sec) ==
    [id |-> id, provider_type |-> pt, host |-> URL(h, p), priority |-> prio,
     secret_key |-> sec]

AllRows ==
    { Row(1, EmailProvider, "b.example", "/x", 1, "s1"),
      Row(2, EmailProvider, "a.example", "/x", 2, "s2"),
      Row(3, PushNotificationProvider, "b.example", "/y", 1, "s3") }

\* the sets of row ids with deleted_at set that the table starts with
DeletedOptions == { {}, {1, 2}, {3} }

\* NotificationPreference as the service sees it
Pref(r) == [Host |-> r.host, SecretKey |-> r.secret_key]

RECURSIVE OrderByPriority(_)
OrderByPriority(rs) ==
    IF rs = {} THEN <<>>
    ELSE LET r == CHOOSE x \in rs : \A y \in rs : x.priority <= y.priority
         IN  <<Pref(r)>> \o OrderByPriority(rs \ {r})

\* SELECT ... WHERE provider_type = ? AND deleted_at IS NULL ORDER BY priority
Query_AnyProvider(del, pt) ==
    OrderByPriority({r \in AllRows : r.id \notin del})

Query_WithDeleted(del, pt) ==
    OrderByPriority({r \in AllRows : r.provider_type = pt})

Query(del, pt) ==
    OrderByPriority({r \in AllRows : r.provider_type = pt /\ r.id \notin del})

(***************************************************************************)
(* gobreaker: Counts and the state machine of one breaker.                 *)
(* expiry is "zero" (the zero time), "pending" (now + Timeout, not yet     *)
(* reached) or "passed" (before the present time).                         *)
(***************************************************************************)
ZeroCounts ==
    [Requests |-> 0, TotalSuccesses |-> 0, TotalFailures |-> 0,
     ConsecutiveSuccesses |-> 0, ConsecutiveFailures |-> 0]

\* gobreaker.NewCircuitBreaker(settings); created = FALSE: not in the registry.
\* id tells the instances apart (the pointer); name is settings.Name.
NewCircuitBreaker ==
    [created |-> TRUE, state |-> "closed", generation |-> 0, expiry |-> "zero",
     counts |-> ZeroCounts, name |-> "", id |-> 0]

NoBreaker == [NewCircuitBreaker EXCEPT !.created = FALSE]

\* float64(a) / float64(b) of two counters: NaN for 0/0, else the quotient,
\* kept as the fraction a/b.  The quotients compared here are those of integers
\* below 2^32, which float64 division keeps in their order.
Ratio(a, b) == [nan |-> (a = 0 /\ b = 0), inf |-> (a # 0 /\ b = 0), num |-> a, den |-> b]

\* x >= y of two float64 quotients; y is finite; a comparison with NaN is false
RatioGE(x, y) ==
    /\ ~x.nan
    /\ x.inf \/ x.num * y.den >= y.num * x.den

\* Settings.ReadyToTrip of NewCircuitBreakerRegistry
ReadyToTrip_Strict(c, counts) ==
    /\ counts.Requests > c.MinRequestsBeforeTrip
    /\ RatioGE(Ratio(counts.TotalFailures, counts.Requests),
               Ratio(c.FailureThresholdPercent, 100))
    /\ ~RatioGE(Ratio(c.FailureThresholdPercent, 100),
                Ratio(counts.TotalFailures, counts.Requests))

ReadyToTrip_Consecutive(c, counts) ==
    /\ counts.Requests >= c.MinRequestsBeforeTrip
    /\ RatioGE(Ratio(counts.ConsecutiveFailures, counts.Requests),
               Ratio(c.FailureThresholdPercent, 100))

ReadyToTrip_IgnoreMin(c, counts) ==
    RatioGE(Ratio(counts.TotalFailures, counts.Requests),
            Ratio(c.FailureThresholdPercent, 100))

ReadyToTrip(c, counts) ==
    /\ counts.Requests >= c.MinRequestsBeforeTrip
    /\ RatioGE(Ratio(counts.TotalFailures, counts.Requests),
               Ratio(c.FailureThresholdPercent, 100))

\* toNewGeneration: generation++, counts cleared, expiry by state (Interval = 0)
toNewGeneration(b) ==
    [b EXCEPT !.generation = @ + 1,
              !.counts = ZeroCounts,
              !.expiry = IF b.state = "open" THEN "pending" ELSE "zero"]

setState(b, s) ==
    IF b.state = s THEN b ELSE toNewGeneration([b EXCEPT !.state = s])

\* currentState: an open breaker whose expiry is before now becomes half-open
currentState_SkipHalfOpen(b) ==
    IF b.state = "open" /\ b.expiry = "passed" THEN setState(b, "closed") ELSE b

currentState(b) ==
    IF b.state = "open" /\ b.expiry = "passed" THEN setState(b, "half-open") ELSE b

onRequest(counts) == [counts EXCEPT !.Requests = @ + 1]

countSuccess(counts) ==
    [counts EXCEPT !.TotalSuccesses = @ + 1, !.ConsecutiveSuccesses = @ + 1,
                   !.ConsecutiveFailures = 0]

countFailure(counts) ==
    [counts EXCEPT !.TotalFailures = @ + 1, !.ConsecutiveFailures = @ + 1,
                   !.ConsecutiveSuccesses = 0]

\* beforeRequest: the (state-updated) breaker, and the error or Nil
beforeRequestErr_AdmitOpen(c, b) ==
    LET cur == currentState(b)
    IN  IF cur.state = "half-open" /\ cur.counts.Requests >= c.MaxHalfOpenRequests
        THEN ErrTooManyRequests
        ELSE Nil

beforeRequestErr_NoLimit(c, b) ==
    LET cur == currentState(b)
    IN  IF cur.state = "open" THEN ErrOpenState ELSE Nil

beforeRequestErr(c, b) ==
    LET cur == currentState(b)
    IN  IF cur.state = "open" THEN ErrOpenState
        ELSE IF cur.state = "half-open" /\ cur.counts.Requests >= c.MaxHalfOpenRequests
             THEN ErrTooManyRequests
             ELSE Nil

beforeRequest_CountsRejected(c, b) ==
    [currentState(b) EXCEPT !.counts = onRequest(@)]

beforeRequest(c, b) ==
    LET cur == currentState(b)
    IN  IF beforeRequestErr(c, b) = Nil
        THEN [cur EXCEPT !.counts = onRequest(@)]
        ELSE cur

onSuccess_CloseAtOnce(c, b) ==
    IF b.state = "closed" THEN [b EXCEPT !.counts = countSuccess(@)]
    ELSE IF b.state = "half-open"
         THEN setState([b EXCEPT !.counts = countSuccess(@)], "closed")
         ELSE b

onSuccess_AsksTrip(c, b) ==
    IF b.state = "closed"
    THEN LET b1 == [b EXCEPT !.counts = countSuccess(@)]
         IN  IF ReadyToTrip(c, b1.counts) THEN setState(b1, "open") ELSE b1
    ELSE IF b.state = "half-open"
         THEN LET b1 == [b EXCEPT !.counts = countSuccess(@)]
              IN  IF b1.counts.ConsecutiveSuccesses >= c.MaxHalfOpenRequests
                  THEN setState(b1, "closed")
                  ELSE b1
         ELSE b

onSuccess(c, b) ==
    IF b.state = "closed" THEN [b EXCEPT !.counts = countSuccess(@)]
    ELSE IF b.state = "half-open"
         THEN LET b1 == [b EXCEPT !.counts = countSuccess(@)]
              IN  IF b1.counts.ConsecutiveSuccesses >= c.MaxHalfOpenRequests
                  THEN setState(b1, "closed")
                  ELSE b1
         ELSE b

onFailure_HalfOpenStays(c, b) ==
    IF b.state = "closed"
    THEN LET b1 == [b EXCEPT !.counts = countFailure(@)]
         IN  IF ReadyToTrip(c, b1.counts) THEN setState(b1, "open") ELSE b1
    ELSE IF b.state = "half-open" THEN [b EXCEPT !.counts = countFailure(@)]
         ELSE b

onFailure(c, b) ==
    IF b.state = "closed"
    THEN LET b1 == [b EXCEPT !.counts = countFailure(@)]
         IN  IF ReadyToTrip(c, b1.counts) THEN setState(b1, "open") ELSE b1
    ELSE IF b.state = "half-open" THEN setState(b, "open")
         ELSE b

\* afterRequest(before, success): ignored when the generation has moved on
afterRequest(c, b, before, success) ==
    LET cur == currentState(b)
    IN  IF cur.generation # before THEN cur
        ELSE IF success THEN onSuccess(c, cur) ELSE onFailure(c, cur)

(***************************************************************************)
(* State.                                                                  *)
(***************************************************************************)
VARIABLES
    cfg,        \* CircuitBreakerRegistryConfig in force
    deleted,    \* ids of the rows of notification_preferences with deleted_at set
    cache,      \* the ristretto engine: channel -> entry
    breakers,   \* CircuitBreakerRegistry.breakers: host -> breaker
    unit,       \* per thread: the unit of work it runs (one channel of one call)
    callerCancelled, \* per thread: the ctx its caller passed in is cancelled
    group,      \* the errgroup of the running SendToSeller
    calls,      \* number of calls started
    http        \* the request NotifyHandler is serving, or served last

vars == <<cfg, deleted, cache, breakers, unit, callerCancelled, group, calls, http>>

(***************************************************************************)
(* The HTTP side of NotifyHandler: request bodies, binding, responses.     *)
(***************************************************************************)
RecipientTypeBuyer == "buyer"
RecipientTypeSeller == "seller"

\* values of the :recipient path parameter (the router does not match an
\* empty one)
Recipients == {"buyer", "seller", "BUYER", "Buyer", "SELLER", "admin"}

ErrNotSupported == "not supported recipient type"
ErrSyntax == "invalid character"
ErrRequired == "failed on the 'required' tag"

\* a JSON member that the body does not have
Missing == "<absent>"

\* request bodies: not JSON at all, or an object that has or lacks each of
\* to, title and message, or has one of them empty
Body(wf, to, title, message) ==
    [wellFormed |-> wf, to |-> to, title |-> title, message |-> message]

Bodies ==
    {Body(FALSE, Missing, Missing, Missing)} \cup
    {Body(TRUE, a, b, c) : a \in {Missing, CallerRequest.To},
                          b \in {Missing, CallerRequest.Title},
                          c \in {Missing, CallerRequest.Message}} \cup
    {Body(TRUE, "", CallerRequest.Title, CallerRequest.Message),
     Body(TRUE, CallerRequest.To, "", CallerRequest.Message),
     Body(TRUE, CallerRequest.To, CallerRequest.Title, "")}

\* NotifyRequest after json decoding: an absent member leaves the zero value
NotifyRequest(body) ==
    [To |-> IF body.to = Missing THEN "" ELSE body.to,
     Title |-> IF body.title = Missing THEN "" ELSE body.title,
     Message |-> IF body.message = Missing THEN "" ELSE body.message]

ZeroRequest == [To |-> "", Title |-> "", Message |-> ""]

\* the fields that fail binding:"required", as the validator's error lists them
FailedFields(req) ==
    (IF req.To = "" THEN "To " ELSE "") \o
    (IF req.Title = "" THEN "Title " ELSE "") \o
    (IF req.Message = "" THEN "Message " ELSE "")

\* c.ShouldBindBodyWithJSON(&req): decode, then validate the required fields
ShouldBindBodyWithJSON_NoRequired(body) ==
    IF ~body.wellFormed THEN [req |-> ZeroRequest, err |-> ErrSyntax]
    ELSE [req |-> NotifyRequest(body), err |-> Nil]

ShouldBindBodyWithJSON(body) ==
    IF ~body.wellFormed THEN [req |-> ZeroRequest, err |-> ErrSyntax]
    ELSE IF FailedFields(NotifyRequest(body)) # ""
         THEN [req |-> NotifyRequest(body),
               err |-> FailedFields(NotifyRequest(body)) \o ErrRequired]
         ELSE [req |-> NotifyRequest(body), err |-> Nil]

GetRequestError(err) == [ErrorCode |-> "E101", Message |-> err]

GetInternalError(err) == [ErrorCode |-> "E102", Message |-> err]

StatusOK == 200
StatusUnprocessableEntity == 422
StatusInternalServerError == 500

\* c.JSON(status, body)
JSON(status, code, message) ==
    [status |-> status, error_code |-> code, message |-> message]

NoResponse == JSON(0, "-", "")

\* the switch on c.Param("recipient"): the service method it calls, if any
recipientMethod_Fold(recipient) ==
    IF recipient \in {"buyer", "BUYER", "Buyer"} THEN "SendToBuyer"
    ELSE IF recipient \in {"seller", "SELLER"} THEN "SendToSeller"
    ELSE "none"

recipientMethod(recipient) ==
    IF recipient = RecipientTypeBuyer THEN "SendToBuyer"
    ELSE IF recipient = RecipientTypeSeller THEN "SendToSeller"
    ELSE "none"

\* the response for the error err of the switch
respond_Generic(err) ==
    IF err # Nil
    THEN JSON(StatusInternalServerError, "E102", "internal server error")
    ELSE JSON(StatusOK, "-", "nofitication sent")

respond(err) ==
    IF err # Nil
    THEN JSON(StatusInternalServerError, GetInternalError(err).ErrorCode,
              GetInternalError(err).Message)
    ELSE JSON(StatusOK, "-", "nofitication sent")

\* no request yet
NoExchange ==
    [pc |-> "idle", body |-> Body(FALSE, Missing, Missing, Missing),
     recipient |-> "-", bindErr |-> NoError, req |-> ZeroRequest,
     called |-> <<>>, ret |-> NoError, resp |-> NoResponse]

\* a key of the ristretto engine: whether it was stored, the value, and the
\* expiration SetWithTTL gave it: "zero" (none), "pending" (now + ExpiredTime,
\* not yet reached) or "passed"
NoEntry == [present |-> FALSE, value |-> <<>>, expiry |-> "zero"]

NoFind == [called |-> FALSE, ctxCancelled |-> FALSE, callerCancelled |-> FALSE]

IdleUnit ==
    [kind |-> "none", ch |-> "-", pc |-> "idle", prefs |-> <<>>, idx |-> 0,
     before |-> 0, beginCtx |-> FALSE, beginCaller |-> FALSE, beginState |-> "-",
     log |-> <<>>, startCancelled |-> FALSE, source |-> "none", find |-> NoFind,
     req |-> CallerRequest, sets |-> <<>>,
     resolveErr |-> NoError, sendErr |-> NoError, err |-> NoError]

\* errgroup.Group after WithContext: no error yet, Wait not returned
NewGroup == [err |-> Nil, ret |-> NoError, order |-> <<>>]

Init ==
    /\ cfg \in Configs
    /\ deleted \in DeletedOptions
    /\ cache = [ch \in Channels |-> NoEntry]
    /\ breakers = [h \in Hosts |-> NoBreaker]
    /\ unit = [t \in Threads |-> IdleUnit]
    /\ callerCancelled = [t \in Threads |-> FALSE]
    /\ group = NewGroup
    /\ calls = 0
    /\ http = NoExchange

(***************************************************************************)
(* Contexts.  SendToSeller runs its two units under the context derived by *)
(* errgroup.WithContext, which is cancelled when the caller's context is,  *)
(* and the first time a unit returns a non-nil error.                      *)
(***************************************************************************)
errgroupCtxCancelled(t) == callerCancelled[t] \/ group.err # Nil

CtxCancelled(t) ==
    IF unit[t].kind = "seller" THEN errgroupCtxCancelled(t) ELSE callerCancelled[t]

\* g.Go's wrapper: the first non-nil error is kept (errOnce) and cancels the context
errgroupRecord_Last(g, t, e) ==
    [g EXCEPT !.err = IF e # Nil THEN e ELSE @,
              !.order = Append(@, t)]

errgroupRecord(g, t, e) ==
    [g EXCEPT !.err = IF e # Nil /\ g.err = Nil THEN e ELSE @,
              !.order = Append(@, t)]

\* a thread may start a call: it runs nothing, or what it ran has returned
Free(t) ==
    \/ unit[t].pc = "idle"
    \/ /\ unit[t].pc = "done"
       /\ unit[t].kind = "seller" => group.ret # NoError

Running(t) == unit[t].pc \in {"cacheGet", "find", "send", "inflight"}

(***************************************************************************)
(* Cache (ristretto behind repository.Cache).                              *)
(***************************************************************************)
\* engine.Get finds a key that was stored and whose expiration has not passed
Live(entry) == entry.present /\ entry.expiry # "passed"

\* Cache.Get: found unless the key was never set or has expired
cacheGet_AlwaysMiss(entry) == [value |-> <<>>, err |-> "cache key not found"]

cacheGet_EmptyOnMiss(entry) ==
    IF Live(entry)
    THEN [value |-> entry.value, err |-> Nil]
    ELSE [value |-> <<>>, err |-> Nil]

cacheGet_IgnoreTTL(entry) ==
    IF entry.present
    THEN [value |-> entry.value, err |-> Nil]
    ELSE [value |-> <<>>, err |-> "cache key not found"]

cacheGet(entry) ==
    IF Live(entry)
    THEN [value |-> entry.value, err |-> Nil]
    ELSE [value |-> <<>>, err |-> "cache key not found"]

\* Cache.Set: SetWithTTL(key, values, 1, expiredTime) replaces the entry and
\* gives it a new expiration
cacheSet_Truncated(entry, values) ==
    [present |-> TRUE, value |-> SubSeq(values, 1, 1), expiry |-> "pending"]

cacheSet(entry, values) ==
    [present |-> TRUE, value |-> values, expiry |-> "pending"]

(***************************************************************************)
(* Persistent.FindByProviderType.  dbErr: the query itself failed.         *)
(***************************************************************************)
FindByProviderType_EmptyIsFound(del, pt, ctxCancelled, dbErr) ==
    IF ctxCancelled THEN [prefs |-> <<>>, err |-> ErrCanceled]
    ELSE IF dbErr THEN [prefs |-> <<>>, err |-> ErrDatabase]
    ELSE [prefs |-> Query(del, pt), err |-> Nil]

FindByProviderType(del, pt, ctxCancelled, dbErr) ==
    IF ctxCancelled THEN [prefs |-> <<>>, err |-> ErrCanceled]
    ELSE IF dbErr THEN [prefs |-> <<>>, err |-> ErrDatabase]
    ELSE IF Len(Query(del, pt)) = 0 THEN [prefs |-> <<>>, err |-> ErrRecordNotFound]
    ELSE [prefs |-> Query(del, pt), err |-> Nil]

(***************************************************************************)
(* CircuitBreakerRegistry.GetOrCreate.                                     *)
(***************************************************************************)
\* the key of the sync.Map entry of a host
breakerKey_Shared(host) == "a.example"

breakerKey(host) == host

\* settings.Name = host; cb := gobreaker.NewCircuitBreaker(settings)
NewBreakerNamed_Anonymous(host, id) == [NewCircuitBreaker EXCEPT !.id = id]

NewBreakerNamed(host, id) == [NewCircuitBreaker EXCEPT !.name = host, !.id = id]

\* sync.Map.Load
Load(reg, host) ==
    [value |-> reg[breakerKey(host)], ok |-> reg[breakerKey(host)].created]

\* sync.Map.LoadOrStore: the value stored under the key if there is one,
\* otherwise cb is stored and returned
LoadOrStore_Store(reg, host, cb) ==
    [reg |-> [reg EXCEPT ![breakerKey(host)] = cb], actual |-> cb]

LoadOrStore(reg, host, cb) ==
    IF reg[breakerKey(host)].created
    THEN [reg |-> reg, actual |-> reg[breakerKey(host)]]
    ELSE [reg |-> [reg EXCEPT ![breakerKey(host)] = cb], actual |-> cb]

\* GetOrCreate run with no other call on the registry in between
GetOrCreate(reg, host) ==
    IF Load(reg, host).ok THEN reg
    ELSE LoadOrStore(reg, host, NewBreakerNamed(host, 0)).reg

(***************************************************************************)
(* sendNotification's loop over the preferences.                           *)
(***************************************************************************)
\* return e from sendNotification, and with it from the unit
ReturnFromSend(u, e) == [u EXCEPT !.sendErr = e, !.err = e, !.pc = "done"]

\* the range loop: the next preference, or the aggregate error after the last
\* and req.SecretKey = preference.SecretKey on sendNotification's own copy of req
loopNext_NilAtEnd(u) ==
    IF u.idx < Len(u.prefs)
    THEN [u EXCEPT !.idx = @ + 1, !.pc = "send",
                   !.req.SecretKey = u.prefs[u.idx + 1].SecretKey]
    ELSE ReturnFromSend(u, Nil)

loopNext_FirstSecret(u) ==
    IF u.idx < Len(u.prefs)
    THEN [u EXCEPT !.idx = @ + 1, !.pc = "send",
                   !.req.SecretKey = u.prefs[1].SecretKey]
    ELSE ReturnFromSend(u, ErrAggregate)

loopNext_RetryLast(u) ==
    IF u.idx < Len(u.prefs)
    THEN [u EXCEPT !.idx = @ + 1, !.pc = "send",
                   !.req.SecretKey = u.prefs[u.idx + 1].SecretKey]
    ELSE IF Len(u.log) <= Len(u.prefs) /\ u.idx > 0
         THEN [u EXCEPT !.pc = "send"]
         ELSE ReturnFromSend(u, ErrAggregate)

loopNext_RewritesList(u) ==
    IF u.idx < Len(u.prefs)
    THEN [u EXCEPT !.idx = @ + 1, !.pc = "send",
                   !.req.SecretKey = u.prefs[u.idx + 1].SecretKey,
                   !.prefs[u.idx + 1].SecretKey = ""]
    ELSE ReturnFromSend(u, ErrAggregate)

loopNext(u) ==
    IF u.idx < Len(u.prefs)
    THEN [u EXCEPT !.idx = @ + 1, !.pc = "send",
                   !.req.SecretKey = u.prefs[u.idx + 1].SecretKey]
    ELSE ReturnFromSend(u, ErrAggregate)

\* what the loop body does with Post's result: return nil, or continue
sendStep_NoReturn(u, e) == loopNext(u)

sendStep_ReturnErr(u, e) == ReturnFromSend(u, e)

sendStep(u, e) == IF e = Nil THEN ReturnFromSend(u, Nil) ELSE loopNext(u)

\* sendNotification(ctx, prefs, req) entered
enterSend(u, prefs) == loopNext([u EXCEPT !.prefs = prefs, !.idx = 0])

\* getNotificationPreferences returns prefs with a nil error: SendToBuyer and
\* the units of SendToSeller go on to sendNotification; called on its own, it
\* returns to its caller
afterResolve(u, prefs) ==
    IF u.kind = "resolve"
    THEN [u EXCEPT !.prefs = prefs, !.err = Nil, !.pc = "done"]
    ELSE enterSend(u, prefs)

(***************************************************************************)
(* One HTTP round trip inside Execute: what http.Client.Do can produce.    *)
(***************************************************************************)
\* Do with a context cancelled beforehand fails at once; cancelled while in
\* flight it fails, unless the response was already there
Outcomes(t) ==
    IF unit[t].beginCtx THEN {"ctx"}
    ELSE IF CtxCancelled(t)
         THEN {"ctx", "ok", "status", "neterr"}
         ELSE {"ok", "status", "neterr"}

\* the error of the function passed to Execute
closureErr_CancelIsNoFailure(o) ==
    IF o \in {"ok", "status", "ctx"} THEN Nil ELSE ErrTransport

closureErr(o) ==
    IF o \in {"ok", "status"} THEN Nil
    ELSE IF o = "ctx" THEN ErrCanceled ELSE ErrTransport

\* the error Post returns after an admitted Execute
PostResult_AnyStatus(o) == closureErr(o)

PostResult(o) ==
    IF closureErr(o) # Nil THEN closureErr(o)
    ELSE IF o = "status" THEN ErrNot200 ELSE Nil

(***************************************************************************)
(* Actions.                                                                *)
(***************************************************************************)
\* thread t's unit becomes u1; a seller unit that returned reports to the errgroup
Settle(t, u1) ==
    /\ unit' = [unit EXCEPT ![t] = u1]
    /\ group' = IF u1.pc = "done" /\ u1.kind = "seller"
                THEN errgroupRecord(group, t, u1.err)
                ELSE group

StartUnit(kind, ch, cancelled) ==
    [IdleUnit EXCEPT !.kind = kind, !.ch = ch, !.pc = "cacheGet",
                     !.startCancelled = cancelled]

SendToBuyer(t) ==
    /\ calls < MaxCalls
    /\ Free(t)
    /\ \E c \in BOOLEAN :
        /\ callerCancelled' = [callerCancelled EXCEPT ![t] = c]
        /\ unit' = [o \in Threads |->
                      IF o = t THEN StartUnit("buyer", EmailProvider, c)
                      ELSE IF unit[o].kind = "seller" THEN IdleUnit ELSE unit[o]]
    /\ calls' = calls + 1
    /\ UNCHANGED <<cfg, deleted, cache, breakers, group>>

SendToSeller ==
    /\ calls < MaxCalls
    /\ \A t \in Threads : Free(t)
    /\ \E c \in BOOLEAN :
        /\ callerCancelled' = [t \in Threads |-> c]
        /\ unit' = [t \in Threads |->
                      StartUnit("seller",
                                IF t = 1 THEN EmailProvider
                                ELSE PushNotificationProvider, c)]
    /\ group' = NewGroup
    /\ calls' = calls + 1
    /\ UNCHANGED <<cfg, deleted, cache, breakers>>

\* getNotificationPreferences, up to the cache lookup
CacheGet(t) ==
    /\ unit[t].pc = "cacheGet"
    /\ LET u == unit[t]
           r == cacheGet(cache[u.ch])
       IN  IF r.err = Nil
           THEN Settle(t, afterResolve([u EXCEPT !.source = "cache",
                                                 !.resolveErr = Nil], r.value))
           ELSE Settle(t, [u EXCEPT !.pc = "find"])
    /\ UNCHANGED <<http, cfg, deleted, cache, breakers, callerCancelled, calls>>

\* what getNotificationPreferences does with the error e of Cache.Set: nothing
afterSet_Surface(u, prefs, e) ==
    IF e # Nil
    THEN [u EXCEPT !.resolveErr = e, !.err = e, !.pc = "done"]
    ELSE afterResolve(u, prefs)

afterSet(u, prefs, e) == afterResolve(u, prefs)

\* getNotificationPreferences after a miss: the store lookup and the cache
\* write, whose result (setErr: Set returned an error and stored nothing) is
\* not looked at
FindThenSet(t, setErr) ==
    /\ unit[t].pc = "find"
    /\ \E dbErr \in BOOLEAN :
        LET u == [unit[t] EXCEPT !.find = [called |-> TRUE,
                                           ctxCancelled |-> CtxCancelled(t),
                                           callerCancelled |-> callerCancelled[t]]]
            r == FindByProviderType(deleted, u.ch, CtxCancelled(t), dbErr)
        IN  IF r.err # Nil
            THEN /\ Settle(t, [u EXCEPT !.resolveErr = r.err, !.err = r.err,
                                        !.pc = "done"])
                 /\ UNCHANGED cache
            ELSE /\ cache' = IF setErr THEN cache
                           ELSE [cache EXCEPT ![u.ch] = cacheSet(@, r.prefs)]
                 /\ Settle(t, afterSet(
                        [u EXCEPT !.source = "store", !.resolveErr = Nil,
                                  !.sets = Append(@, [key |-> u.ch, values |-> r.prefs,
                                                      err |-> IF setErr THEN ErrCacheSet
                                                              ELSE Nil])],
                        r.prefs, IF setErr THEN ErrCacheSet ELSE Nil))
    /\ UNCHANGED <<http, cfg, deleted, breakers, callerCancelled, calls>>

\* with the repository's Cache, whose Set returns nil whatever happens
FindAndSet(t) == FindThenSet(t, FALSE)

\* one Post(ctx, preference.Host, req) call: o is what the one round trip it
\* makes came to, "none" when the breaker let none be made
Attempt(u, state, o, ctxEnd, callerEnd, e) ==
    [url |-> u.prefs[u.idx].Host, secret |-> u.req.SecretKey, req |-> u.req,
     state |-> state, invoked |-> (o # "none"), outcome |-> o,
     ctxBegin |-> u.beginCtx, callerBegin |-> u.beginCaller,
     ctxEnd |-> ctxEnd, callerEnd |-> callerEnd, err |-> e]

\* HTTPClient.Post up to the admission by the breaker (GetOrCreate, State,
\* Execute's beforeRequest); a rejected attempt returns to the loop at once
PostBegin(t) ==
    /\ unit[t].pc = "send"
    /\ LET u == [unit[t] EXCEPT !.beginCtx = CtxCancelled(t),
                                !.beginCaller = callerCancelled[t]]
           h == breakerKey(extractHost(u.prefs[u.idx].Host))
           reg == GetOrCreate(breakers, extractHost(u.prefs[u.idx].Host))
           e == beforeRequestErr(cfg, reg[h])
           b1 == beforeRequest(cfg, reg[h])
           st == currentState(reg[h]).state
       IN  /\ breakers' = [reg EXCEPT ![h] = b1]
           /\ IF e = Nil
              THEN Settle(t, [u EXCEPT !.pc = "inflight", !.before = b1.generation,
                                       !.beginState = st])
              ELSE Settle(t, sendStep([u EXCEPT !.log =
                              Append(@, Attempt(u, st, "none", u.beginCtx, u.beginCaller, e))], e))
    /\ UNCHANGED <<http, cfg, deleted, cache, callerCancelled, calls>>

\* the round trip ends: Execute's afterRequest, Post's result, the loop's reaction
PostEnd(t) ==
    /\ unit[t].pc = "inflight"
    /\ \E o \in Outcomes(t) :
        LET u == unit[t]
            h == breakerKey(extractHost(u.prefs[u.idx].Host))
            e == PostResult(o)
        IN  /\ breakers' = [breakers EXCEPT ![h] =
                   afterRequest(cfg, @, u.before, closureErr(o) = Nil)]
            /\ Settle(t, sendStep([u EXCEPT !.log =
                   Append(@, Attempt(u, u.beginState, o, CtxCancelled(t),
                                    callerCancelled[t], e))], e))
    /\ UNCHANGED <<http, cfg, deleted, cache, callerCancelled, calls>>

\* g.Wait() returns the group's error once both units have returned
SellerWait ==
    /\ \A t \in Threads : unit[t].kind = "seller" /\ unit[t].pc = "done"
    /\ group.ret = NoError
    /\ group' = [group EXCEPT !.ret = group.err]
    /\ UNCHANGED <<http, cfg, deleted, cache, breakers, unit, callerCancelled, calls>>

\* the caller cancels the context it passed in
CancelCaller(t) ==
    /\ Running(t)
    /\ ~callerCancelled[t]
    /\ callerCancelled' = [o \in Threads |->
                             IF o = t \/ unit[t].kind = "seller" THEN TRUE
                             ELSE callerCancelled[o]]
    /\ UNCHANGED <<http, cfg, deleted, cache, breakers, unit, group, calls>>

\* OpenStateTimeout has run out for the open breaker of host h
OpenTimeoutElapses(h) ==
    /\ breakers[h].state = "open"
    /\ breakers[h].expiry = "pending"
    /\ breakers' = [breakers EXCEPT ![h].expiry = "passed"]
    /\ UNCHANGED <<http, cfg, deleted, cache, unit, callerCancelled, group, calls>>

\* The entry of channel ch has outlived ExpiredTime.  Only Cache.Get observes
\* this, and the calls follow one another: the expiration passes at some moment
\* between two calls.
CacheExpire(ch) ==
    /\ calls < MaxCalls
    /\ \A t \in Threads : Free(t)
    /\ cache[ch].present
    /\ cache[ch].expiry = "pending"
    /\ cache' = [cache EXCEPT ![ch].expiry = "passed"]
    /\ UNCHANGED <<http, cfg, deleted, breakers, unit, callerCancelled, group, calls>>

\* The calls of one caller, one after the other.
Next ==
    \/ (\A t \in Threads : Free(t)) /\ SendToBuyer(1) /\ UNCHANGED http
    \/ SendToSeller /\ UNCHANGED http
    \/ \E t \in Threads : CacheGet(t)
    \/ \E t \in Threads : FindAndSet(t)
    \/ \E t \in Threads : PostBegin(t)
    \/ \E t \in Threads : PostEnd(t)
    \/ SellerWait
    \/ \E t \in Threads : CancelCaller(t)
    \/ \E h \in Hosts : OpenTimeoutElapses(h)
    \/ \E ch \in Channels : CacheExpire(ch)

Spec == Init /\ [][Next]_vars

(***************************************************************************)
(* sendNotification called on its own, as its unit test does, with any of  *)
(* these lists.                                                            *)
(***************************************************************************)
P(h, p, sec) == [Host |-> URL(h, p), SecretKey |-> sec]

DirectLists ==
    { <<>>,
      <<P("a.example", "/x", "s1")>>,
      <<P("a.example", "/x", "s1"), P("b.example", "/x", "s2")>>,
      <<P("a.example", "/x", "s1"), P("b.example", "/x", "s2"),
        P("a.example", "/y", "s3")>> }

CallSendNotification(t) ==
    /\ calls < MaxCalls
    /\ \A o \in Threads : Free(o)
    /\ \E list \in DirectLists, c \in BOOLEAN :
        /\ callerCancelled' = [callerCancelled EXCEPT ![t] = c]
        /\ unit' = [o \in Threads |->
                      IF o = t
                      THEN enterSend([IdleUnit EXCEPT !.kind = "direct",
                                                      !.startCancelled = c], list)
                      ELSE IdleUnit]
    /\ calls' = calls + 1
    /\ UNCHANGED <<http, cfg, deleted, cache, breakers, group>>

InitSend == Init /\ deleted = {}

NextSend ==
    \/ CallSendNotification(1)
    \/ PostBegin(1)
    \/ PostEnd(1)
    \/ CancelCaller(1)
    \/ \E h \in Hosts : OpenTimeoutElapses(h)

SpecSend == InitSend /\ [][NextSend]_vars

(***************************************************************************)
(* getNotificationPreferences called on its own, as its unit test does, by *)
(* two goroutines (two requests at once, or one after the other), all      *)
(* within the lifetime of what the cache holds: no entry expires or is     *)
(* evicted here.                                                           *)
(***************************************************************************)
CallResolve(t) ==
    /\ calls < MaxResolves
    /\ Free(t)
    /\ \E ch \in Channels, c \in BOOLEAN :
        /\ callerCancelled' = [callerCancelled EXCEPT ![t] = c]
        /\ unit' = [unit EXCEPT ![t] = StartUnit("resolve", ch, c)]
    /\ calls' = calls + 1
    /\ UNCHANGED <<http, cfg, deleted, cache, breakers, group>>

InitResolve == Init /\ cfg = DefaultConfig

NextResolve ==
    \/ \E t \in Threads : CallResolve(t)
    \/ \E t \in Threads : CacheGet(t)
    \/ \E t \in Threads : FindAndSet(t)
    \/ \E t \in Threads : CancelCaller(t)

SpecResolve == InitResolve /\ [][NextResolve]_vars

\* the same resolves, with entries whose ExpiredTime runs out between them
NextCache ==
    \/ \E t \in Threads : CallResolve(t)
    \/ \E t \in Threads : CacheGet(t)
    \/ \E t \in Threads : FindAndSet(t)
    \/ \E t \in Threads : CancelCaller(t)
    \/ \E ch \in Channels : CacheExpire(ch)

SpecCache == InitResolve /\ [][NextCache]_vars

(***************************************************************************)
(* SendToBuyer over a CacheProvider whose Set may return an error, as the  *)
(* interface allows and the service's test has it do.                      *)
(***************************************************************************)
NextBuyer ==
    \/ SendToBuyer(1) /\ UNCHANGED http
    \/ CacheGet(1)
    \/ \E setErr \in BOOLEAN : FindThenSet(1, setErr)
    \/ PostBegin(1)
    \/ PostEnd(1)
    \/ CancelCaller(1)
    \/ \E h \in Hosts : OpenTimeoutElapses(h)
    \/ \E ch \in Channels : CacheExpire(ch)

SpecBuyer == Init /\ [][NextBuyer]_vars

(***************************************************************************)
(* The calls of one caller when every cache lookup, store lookup and Post  *)
(* returns: a goroutine that can take its next step takes it.              *)
(***************************************************************************)
NextFair ==
    \/ (\A t \in Threads : Free(t)) /\ SendToBuyer(1) /\ UNCHANGED http
    \/ SendToSeller /\ UNCHANGED http
    \/ \E t \in Threads : CacheGet(t)
    \/ \E t \in Threads : FindAndSet(t)
    \/ \E t \in Threads : PostBegin(t)
    \/ \E t \in Threads : PostEnd(t)
    \/ SellerWait
    \/ \E t \in Threads : CancelCaller(t)

Fairness ==
    /\ \A t \in Threads :
          /\ WF_vars(CacheGet(t))
          /\ WF_vars(FindAndSet(t))
          /\ WF_vars(PostBegin(t))
          /\ WF_vars(PostEnd(t))
    /\ WF_vars(SellerWait)

InitFair == Init /\ cfg = DefaultConfig

SpecFair == InitFair /\ [][NextFair]_vars /\ Fairness

(***************************************************************************)
(* NotifyHandler in front of the service: one request after the other,     *)
(* each with any body and any recipient.                                   *)
(***************************************************************************)
\* the call the switch makes, with the bound fields as its arguments
ServiceCall(method, req) ==
    [method |-> method, to |-> req.To, title |-> req.Title, message |-> req.Message]

\* NotifyHandler up to the service call: bind the body, then either answer
\* (binding failed, or no case of the switch matches) or call the service
NotifyHandler ==
    /\ http.pc # "service"
    /\ \A t \in Threads : Free(t)
    /\ calls < MaxCalls
    /\ \E body \in Bodies, recipient \in Recipients :
        LET b == ShouldBindBodyWithJSON(body)
            x == [NoExchange EXCEPT !.body = body, !.recipient = recipient,
                                    !.bindErr = b.err, !.req = b.req]
            m == recipientMethod(recipient)
        IN  IF b.err # Nil
            THEN /\ http' = [x EXCEPT !.pc = "done",
                                 !.resp = JSON(StatusUnprocessableEntity,
                                               GetRequestError(b.err).ErrorCode,
                                               GetRequestError(b.err).Message)]
                 /\ calls' = calls + 1
                 /\ UNCHANGED <<cfg, deleted, cache, breakers, unit,
                                callerCancelled, group>>
            ELSE IF m = "SendToBuyer"
            THEN /\ SendToBuyer(1)
                 /\ http' = [x EXCEPT !.pc = "service",
                                 !.called = <<ServiceCall(m, b.req)>>]
            ELSE IF m = "SendToSeller"
            THEN /\ SendToSeller
                 /\ http' = [x EXCEPT !.pc = "service",
                                 !.called = <<ServiceCall(m, b.req)>>]
            ELSE /\ http' = [x EXCEPT !.pc = "done", !.ret = ErrNotSupported,
                                 !.resp = respond(ErrNotSupported)]
                 /\ calls' = calls + 1
                 /\ UNCHANGED <<cfg, deleted, cache, breakers, unit,
                                callerCancelled, group>>

\* the service method has returned
ServiceReturned ==
    IF http.called[1].method = "SendToBuyer"
    THEN unit[1].kind = "buyer" /\ unit[1].pc = "done"
    ELSE group.ret # NoError

ServiceError ==
    IF http.called[1].method = "SendToBuyer" THEN unit[1].err ELSE group.ret

\* NotifyHandler after the service call: the response for its error
NotifyHandlerRespond ==
    /\ http.pc = "service"
    /\ ServiceReturned
    /\ http' = [http EXCEPT !.pc = "done", !.ret = ServiceError,
                            !.resp = respond(ServiceError)]
    /\ UNCHANGED <<cfg, deleted, cache, breakers, unit, callerCancelled, group,
                   calls>>

InitHandler == Init /\ cfg = DefaultConfig

NextHandler ==
    \/ NotifyHandler
    \/ \E t \in Threads : CacheGet(t)
    \/ \E t \in Threads : FindAndSet(t)
    \/ \E t \in Threads : PostBegin(t)
    \/ \E t \in Threads : PostEnd(t)
    \/ SellerWait
    \/ \E t \in Threads : CancelCaller(t)
    \/ NotifyHandlerRespond

SpecHandler == InitHandler /\ [][NextHandler]_vars

(***************************************************************************)
(* Execute called on one host's breaker directly, as the registry's tests  *)
(* do: cb := registry.GetOrCreate(host), then cb.Execute(f) from one       *)
(* goroutine after the other or from two at once.  f is chosen by the      *)
(* caller: it returns an error (fails) or a response.                      *)
(***************************************************************************)
ExecHost == "a.example"

\* one Execute call as its caller sees it: the state and generation it was
\* admitted or rejected in, whether f ran, what f does, and what came back;
\* requests and failures are the counts ReadyToTrip was asked about, if it was
Call(state, gen, invoked, fails, done, e) ==
    [state |-> state, gen |-> gen, invoked |-> invoked, fails |-> fails,
     done |-> done, err |-> e, asked |-> FALSE, requests |-> 0, failures |-> 0,
     tripped |-> FALSE]

\* Execute: beforeRequest; a rejected call returns its error at once
ExecuteBegin(t) ==
    /\ unit[t].pc = "idle"
    /\ \E fails \in BOOLEAN :
        LET b == breakers[breakerKey(ExecHost)]
            e == beforeRequestErr(cfg, b)
            b1 == beforeRequest(cfg, b)
        IN  /\ breakers' = [breakers EXCEPT ![breakerKey(ExecHost)] = b1]
            /\ unit' = [unit EXCEPT ![t] =
                   [@ EXCEPT !.kind = "execute",
                             !.pc = IF e = Nil THEN "inflight" ELSE "idle",
                             !.before = b1.generation,
                             !.log = Append(@, Call(b1.state, b1.generation, e = Nil,
                                                    fails, e # Nil,
                                                    IF e = Nil THEN NoError ELSE e))]]
    /\ calls' = calls + 1
    /\ UNCHANGED <<http, cfg, deleted, cache, callerCancelled, group>>

\* Execute: f has returned; afterRequest(generation, err == nil)
ExecuteEnd(t) ==
    /\ unit[t].pc = "inflight"
    /\ LET u == unit[t]
           n == Len(u.log)
           b == breakers[breakerKey(ExecHost)]
           cur == currentState(b)
           b1 == afterRequest(cfg, b, u.before, ~u.log[n].fails)
           asked == u.log[n].fails /\ cur.generation = u.before /\ cur.state = "closed"
       IN  /\ breakers' = [breakers EXCEPT ![breakerKey(ExecHost)] = b1]
           /\ unit' = [unit EXCEPT ![t] =
                  [@ EXCEPT !.pc = "idle",
                            !.log[n] =
                                [@ EXCEPT !.done = TRUE,
                                          !.err = IF u.log[n].fails THEN ErrTransport ELSE Nil,
                                          !.asked = asked,
                                          !.requests = IF asked THEN cur.counts.Requests ELSE 0,
                                          !.failures = IF asked THEN cur.counts.TotalFailures + 1 ELSE 0,
                                          !.tripped = asked /\ b1.state = "open"]]]
    /\ UNCHANGED <<http, cfg, deleted, cache, callerCancelled, group, calls>>

InitBreaker ==
    /\ cfg \in BreakerConfigs
    /\ deleted = {}
    /\ cache = [ch \in Channels |-> NoEntry]
    /\ breakers = GetOrCreate([h \in Hosts |-> NoBreaker], ExecHost)
    /\ unit = [t \in Threads |-> IdleUnit]
    /\ callerCancelled = [t \in Threads |-> FALSE]
    /\ group = NewGroup
    /\ calls = 0
    /\ http = NoExchange

\* one goroutine, one call after the other
NextBreaker ==
    \/ calls < MaxExecutes /\ ExecuteBegin(1)
    \/ ExecuteEnd(1)
    \/ OpenTimeoutElapses(ExecHost)

SpecBreaker == InitBreaker /\ [][NextBreaker]_vars

\* two goroutines, their calls overlapping or not
NextProbes ==
    \/ \E t \in Threads : calls < MaxOverlapping /\ ExecuteBegin(t)
    \/ \E t \in Threads : ExecuteEnd(t)
    \/ OpenTimeoutElapses(ExecHost)

SpecProbes == InitBreaker /\ [][NextProbes]_vars

(***************************************************************************)
(* GetOrCreate called on one registry by two goroutines, as the registry's *)
(* concurrency test does: the Load, and after a miss the construction and  *)
(* the LoadOrStore, are steps of their own.                                *)
(***************************************************************************)
\* one GetOrCreate(host) call: the instance it constructed (0: none), and the
\* instance it returned (0: not returned yet) with its name and state
Got(host, made, cb) ==
    [host |-> host, made |-> made, got |-> cb.id, name |-> cb.name,
     state |-> cb.state]

Pending(host, made) ==
    [host |-> host, made |-> made, got |-> 0, name |-> "", state |-> "-"]

\* r.breakers.Load(host); on a miss, the new breaker is constructed
GetOrCreateLoad(t) ==
    /\ calls < MaxGets
    /\ unit[t].pc = "idle"
    /\ \E h \in Hosts :
        LET l == Load(breakers, h)
        IN  unit' = [unit EXCEPT ![t] =
                [@ EXCEPT !.kind = "registry",
                          !.pc = IF l.ok THEN "idle" ELSE "store",
                          !.log = Append(@, IF l.ok THEN Got(h, 0, l.value)
                                            ELSE Pending(h, calls + 1))]]
    /\ calls' = calls + 1
    /\ UNCHANGED <<http, cfg, deleted, cache, breakers, callerCancelled, group>>

\* r.breakers.LoadOrStore(host, cb), and the return of what it yields
GetOrCreateStore(t) ==
    /\ unit[t].pc = "store"
    /\ LET u == unit[t]
           n == Len(u.log)
           r == LoadOrStore(breakers, u.log[n].host,
                            NewBreakerNamed(u.log[n].host, u.log[n].made))
       IN  /\ breakers' = r.reg
           /\ unit' = [unit EXCEPT ![t] =
                  [@ EXCEPT !.pc = "idle",
                            !.log[n] = Got(u.log[n].host, u.log[n].made, r.actual)]]
    /\ UNCHANGED <<http, cfg, deleted, cache, callerCancelled, group, calls>>

InitRegistry == Init /\ cfg = DefaultConfig /\ deleted = {}

NextRegistry ==
    \/ \E t \in Threads : GetOrCreateLoad(t)
    \/ \E t \in Threads : GetOrCreateStore(t)

SpecRegistry == InitRegistry /\ [][NextRegistry]_vars

(***************************************************************************)
(* Properties.                                                             *)
(***************************************************************************)
Last(q) == q[Len(q)]

Errs(u) == {u.log[i].err : i \in 1..Len(u.log)}

\* the unit has entered sendNotification
InSend(u) == u.pc \in {"send", "inflight"} \/ u.sendErr # NoError

\* C1: sendNotification attempts the endpoints of its list one at a time, in list
\* order, each once: the i-th attempt goes to the i-th endpoint with that
\* endpoint's secret, every attempt before the last one failed, the attempt in
\* flight is the one after those made, and once an attempt succeeds nothing
\* more is attempted and nil is returned; nil is returned only after a success.
C1_FallbackInOrder ==
    \A t \in Threads :
        LET u == unit[t] IN
        InSend(u) =>
            /\ Len(u.log) <= Len(u.prefs)
            /\ \A i \in 1..Len(u.log) :
                /\ u.log[i].url = u.prefs[i].Host
                /\ u.log[i].secret = u.prefs[i].SecretKey
                /\ i < Len(u.log) => u.log[i].err # Nil
            /\ u.pc \in {"send", "inflight"} =>
                /\ u.idx = Len(u.log) + 1
                /\ \A i \in 1..Len(u.log) : u.log[i].err # Nil
            /\ (Len(u.log) > 0 /\ Last(u.log).err = Nil) =>
                u.pc = "done" /\ u.sendErr = Nil
            /\ u.sendErr = Nil => Len(u.log) > 0 /\ Last(u.log).err = Nil

\* the third endpoint of a list is the first to succeed
C1_Witness ==
    \E t \in Threads :
        /\ unit[t].sendErr = Nil
        /\ Len(unit[t].log) = 3
        /\ unit[t].log[1].err # Nil /\ unit[t].log[2].err # Nil

\* C2: sendNotification returns nothing but nil or the aggregate error, and it
\* returns the aggregate error exactly when it has attempted every endpoint of
\* the list once and each attempt failed.
C2_AggregateOnExhaustion ==
    \A t \in Threads :
        LET u == unit[t] IN
        /\ u.sendErr \in {NoError, Nil, ErrAggregate}
        /\ u.sendErr = ErrAggregate =>
            /\ Len(u.log) = Len(u.prefs)
            /\ \A i \in 1..Len(u.log) :
                u.log[i].url = u.prefs[i].Host /\ u.log[i].err # Nil
        /\ (u.pc = "done" /\ u.resolveErr \in {NoError, Nil} /\ u.kind # "none"
            /\ \A i \in 1..Len(u.log) : u.log[i].err # Nil) =>
                u.sendErr = ErrAggregate /\ u.err = ErrAggregate

\* a list of three fails by a circuit-open rejection, a non-200 and a transport error
C2_Witness ==
    \E t \in Threads :
        /\ unit[t].sendErr = ErrAggregate
        /\ Len(unit[t].prefs) = 3
        /\ Errs(unit[t]) = {ErrOpenState, ErrNot200, ErrTransport}

\* C3: sendNotification on an empty list has returned the aggregate error
\* without a single Post.
C3_EmptyListFails ==
    \A t \in Threads :
        LET u == unit[t] IN
        (u.kind = "direct" /\ u.prefs = <<>>) =>
            /\ u.pc = "done"
            /\ u.sendErr = ErrAggregate
            /\ u.log = <<>>

C3_Witness ==
    \E t \in Threads :
        /\ unit[t].kind = "direct"
        /\ unit[t].prefs = <<>>
        /\ unit[t].sendErr = ErrAggregate
        /\ calls = 2

\* C4: an attempt that finds its host's breaker open is rejected with the
\* circuit-open error and its action is not invoked (no round trip is ever in
\* flight under an open breaker); the dispatcher goes on as after any failure:
\* to the next endpoint, or to the aggregate error after the last.
C4_OpenRejects ==
    \A t \in Threads :
        LET u == unit[t] IN
        /\ u.pc = "inflight" => u.beginState # "open"
        /\ \A i \in 1..Len(u.log) :
            /\ u.log[i].state = "open" =>
                /\ ~u.log[i].invoked
                /\ u.log[i].err = ErrOpenState
                /\ i = Len(u.log) =>
                    IF i < Len(u.prefs)
                    THEN u.pc \in {"send", "inflight"} /\ u.idx = i + 1
                    ELSE u.pc = "done" /\ u.sendErr = ErrAggregate
            /\ u.log[i].err = ErrOpenState => u.log[i].state = "open"

\* an open breaker rejected an attempt and the next endpoint was attempted
C4_Witness ==
    \E t \in Threads :
        \E i \in 1..Len(unit[t].log) :
            /\ unit[t].log[i].state = "open"
            /\ Len(unit[t].log) > i
            /\ unit[t].log[i + 1].invoked

\* the host a unit's current attempt goes to
Target(t) == extractHost(unit[t].prefs[unit[t].idx].Host)

\* C5: a step of an attempt against one host leaves the breaker of every other
\* host as it was: its state, its counts, its generation and its expiry.
C5_HostIsolation ==
    [][\A t \in Threads :
          (unit[t].pc \in {"send", "inflight"} /\ unit'[t] # unit[t]) =>
              \A h \in Hosts \ {Target(t)} : breakers'[h] = breakers[h]]_vars

\* the breaker of b.example short-circuits an attempt and a later attempt of the
\* same dispatch is let through to a.example, whose breaker is closed
C5_Witness ==
    \E t \in Threads :
        \E i, j \in 1..Len(unit[t].log) :
            /\ i < j
            /\ extractHost(unit[t].log[i].url) = "b.example"
            /\ unit[t].log[i].err = ErrOpenState
            /\ extractHost(unit[t].log[j].url) = "a.example"
            /\ unit[t].log[j].invoked
            /\ breakers["b.example"].state = "open"
            /\ breakers["a.example"].state = "closed"

\* C6: in SendToSeller every store lookup and every Post attempt of a unit sees
\* a context that is cancelled only if the caller cancelled it.
C6_SiblingContextLive ==
    \A t \in Threads :
        LET u == unit[t] IN
        u.kind = "seller" =>
            /\ (u.find.called /\ u.find.ctxCancelled) => u.find.callerCancelled
            /\ \A i \in 1..Len(u.log) :
                u.log[i].ctxBegin => u.log[i].callerBegin

\* C7: when SendToSeller has returned and its caller did not cancel, both units
\* have returned, neither had its resolve cut short by a cancellation, and each
\* unit that resolved a list ran sendNotification to its end.
C7_BothUnitsRunToEnd ==
    (group.ret # NoError /\ \A t \in Threads : unit[t].kind = "seller") =>
        \A t \in Threads :
            LET u == unit[t] IN
            /\ u.pc = "done"
            /\ ~callerCancelled[t] =>
                /\ u.resolveErr \in {Nil, ErrRecordNotFound, ErrDatabase}
                /\ u.resolveErr = Nil => u.sendErr # NoError

\* the first unit of the errgroup, in the order of their returns, that failed
FirstFailed ==
    group.order[CHOOSE i \in 1..Len(group.order) :
                    /\ unit[group.order[i]].err # Nil
                    /\ \A j \in 1..(i - 1) : unit[group.order[j]].err = Nil]

\* C8: what SendToSeller returns is nil exactly when both units returned nil,
\* and otherwise the error of the unit that failed first; a unit that delivered
\* has one successful attempt, its last.
C8_SellerResult ==
    (group.ret # NoError /\ \A t \in Threads : unit[t].kind = "seller") =>
        /\ group.ret = Nil <=> \A t \in Threads : unit[t].err = Nil
        /\ group.ret # Nil => group.ret = unit[FirstFailed].err
        /\ \A t \in Threads :
            unit[t].err = Nil =>
                /\ Len(unit[t].log) > 0
                /\ \A i \in 1..Len(unit[t].log) :
                    unit[t].log[i].err = Nil <=> i = Len(unit[t].log)

\* the email is delivered, the push channel fails, SendToSeller returns the
\* push unit's error
C8_Witness ==
    /\ group.ret = ErrAggregate
    /\ \A t \in Threads : unit[t].kind = "seller"
    /\ unit[1].err = Nil
    /\ unit[2].err = ErrAggregate

\* both units fail, with different errors
C8_WitnessBothFail ==
    /\ group.ret # NoError
    /\ \A t \in Threads : unit[t].kind = "seller"
    /\ unit[1].err # Nil /\ unit[2].err # Nil /\ unit[1].err # unit[2].err

\* C9: a call of SendToBuyer or SendToSeller entered with a cancelled context
\* makes no Post and returns the cancellation error.
C9_CancelledBeforeStart ==
    \A t \in Threads :
        LET u == unit[t] IN
        (u.kind \in {"buyer", "seller"} /\ u.startCancelled) =>
            /\ u.log = <<>>
            /\ u.pc # "inflight"
            /\ u.pc = "done" => u.err = ErrCanceled

\* C10: after an attempt that failed with the caller's context cancelled by its
\* end, sendNotification makes no further attempt and returns the cancellation.
C10_CancelAbandonsFallback ==
    \A t \in Threads :
        LET u == unit[t] IN
        \A i \in 1..Len(u.log) :
            (u.log[i].callerEnd /\ u.log[i].err # Nil) =>
                /\ i = Len(u.log)
                /\ u.pc = "done"
                /\ u.sendErr = ErrCanceled

(***************************************************************************)
(* Properties of one breaker under direct Execute calls.                   *)
(***************************************************************************)
Breaker == breakers[breakerKey(ExecHost)]

\* the calls of the goroutine that makes them one after the other
Calls == unit[1].log

Failing(q) == {i \in 1..Len(q) : q[i].fails}

\* C11: whenever a breaker asks its trip predicate, the answer is yes exactly
\* when requests >= MinRequestsBeforeTrip and failures * 100 >=
\* FailureThresholdPercent * requests (equality included in both), and so it is
\* for every pair of counts; below the minimum number of requests it is no
\* whatever the failure ratio.
C11_TripPredicate ==
    /\ \A t \in Threads : \A i \in 1..Len(unit[t].log) :
          LET e == unit[t].log[i] IN
          e.asked =>
              /\ e.tripped <=>
                    /\ e.requests >= cfg.MinRequestsBeforeTrip
                    /\ e.failures * 100 >= cfg.FailureThresholdPercent * e.requests
              /\ e.requests < cfg.MinRequestsBeforeTrip => ~e.tripped
    /\ \A r \in 1..(MaxExecutes + 1) : \A f \in 0..r :
          LET counts == [ZeroCounts EXCEPT !.Requests = r, !.TotalFailures = f] IN
          /\ ReadyToTrip(cfg, counts) <=>
                /\ r >= cfg.MinRequestsBeforeTrip
                /\ f * 100 >= cfg.FailureThresholdPercent * r
          /\ r < cfg.MinRequestsBeforeTrip => ~ReadyToTrip(cfg, counts)

\* one breaker does not trip on 1 failure of 1 request, below the minimum of 2,
\* and trips at equality in both conditions: 2 requests, 1 failure of 2 = 50%
C11_Witness ==
    /\ cfg = TestConfig
    /\ \E i, j \in 1..Len(Calls) :
        /\ Calls[i].asked /\ ~Calls[i].tripped
        /\ Calls[i].requests = 1 /\ Calls[i].failures = 1
        /\ Calls[j].asked /\ Calls[j].tripped
        /\ Calls[j].requests = 2 /\ Calls[j].failures = 1

\* the five calls are over and OpenStateTimeout has not run out in between
FiveCalls == Len(Calls) = 5 /\ unit[1].pc = "idle"

DefaultTripPolicy ==
    cfg.MinRequestsBeforeTrip = 3 /\ cfg.FailureThresholdPercent = 60

NoTimeoutYet ==
    Breaker.expiry # "passed" /\ \A i \in 1..Len(Calls) : Calls[i].state # "half-open"

\* C12: with a minimum of 3 requests and a threshold of 60%, after 5 sequential
\* Execute calls on a fresh breaker of which at least 3 are made to fail, in any
\* order, the breaker is open, as long as OpenStateTimeout has not run out.
C12_TripsOnThreeOfFive ==
    (DefaultTripPolicy /\ FiveCalls /\ NoTimeoutYet
     /\ Cardinality(Failing(Calls)) >= 3) =>
        Breaker.state = "open" /\ Breaker.expiry = "pending"

\* two successes, then three failures: the breaker trips at the fifth call, 3/5
C12_Witness ==
    /\ cfg = DefaultConfig
    /\ FiveCalls
    /\ Failing(Calls) = {3, 4, 5}
    /\ \A i \in 1..5 : Calls[i].invoked
    /\ Breaker.state = "open"

\* the breaker has stayed closed throughout
NeverLeftClosed ==
    /\ Breaker.state = "closed" /\ Breaker.generation = 0
    /\ \A i \in 1..Len(Calls) : Calls[i].state = "closed" /\ Calls[i].invoked

\* C13 as stated: with a minimum of 3 requests and a threshold of 60%, 5
\* sequential Execute calls on a fresh breaker of which exactly 2 fail never
\* take it out of closed, in whatever order.
C13_TwoOfFiveNeverTrips ==
    (DefaultTripPolicy /\ FiveCalls /\ Cardinality(Failing(Calls)) = 2) =>
        NeverLeftClosed

\* the second failure is the third call
SecondFailureIsThird == 3 \in Failing(Calls) /\ Failing(Calls) \cap {1, 2} # {}

\* C13, amended: such a breaker stays closed through the 5 calls exactly when
\* the second failure is not the third call; when it is, the predicate is asked
\* about 2 failures in 3 requests (66.7% >= 60%) and the breaker trips there.
C13_TwoOfFiveTripsOnlyAtThird ==
    (DefaultTripPolicy /\ FiveCalls /\ Cardinality(Failing(Calls)) = 2) =>
        /\ NeverLeftClosed <=> ~SecondFailureIsThird
        /\ SecondFailureIsThird =>
              Calls[3].tripped /\ Calls[3].requests = 3 /\ Calls[3].failures = 2

\* the first and the last of five calls fail and the breaker is still closed
C13_Witness ==
    /\ cfg = DefaultConfig
    /\ FiveCalls
    /\ Failing(Calls) = {1, 5}
    /\ NeverLeftClosed

\* the calls on record, of every goroutine
Entries(un) == UNION {{<<t, i>> : i \in 1..Len(un[t].log)} : t \in Threads}

\* the probes admitted in the half-open generation g, and how they ended
Probes(un, g) ==
    {p \in Entries(un) :
        LET e == un[p[1]].log[p[2]]
        IN  e.gen = g /\ e.state = "half-open" /\ e.invoked}

Succeeded(un, g) ==
    {p \in Probes(un, g) : un[p[1]].log[p[2]].done /\ un[p[1]].log[p[2]].err = Nil}

Failed(un, g) ==
    {p \in Probes(un, g) : un[p[1]].log[p[2]].done /\ un[p[1]].log[p[2]].err # Nil}

\* the call made on an open breaker whose OpenStateTimeout has run out is
\* admitted as a half-open probe: its function is invoked
ProbeAdmitted ==
    (Breaker.state = "open" /\ Breaker.expiry = "passed" /\ calls' = calls + 1) =>
        \E t \in Threads :
            /\ Len(unit'[t].log) = Len(unit[t].log) + 1
            /\ Last(unit'[t].log).state = "half-open"
            /\ Last(unit'[t].log).invoked
            /\ unit'[t].pc = "inflight"
            /\ breakers'[breakerKey(ExecHost)].state = "half-open"

\* C14 as stated: the call after OpenStateTimeout is admitted as a half-open
\* probe, and once a probe has succeeded the breaker is no longer half-open,
\* whatever MaxHalfOpenRequests is.
C14_OneProbeCloses ==
    [][/\ ProbeAdmitted
       /\ LET b == breakers'[breakerKey(ExecHost)] IN
          b.state = "half-open" => Succeeded(unit', b.generation) = {}]_vars

\* C14, amended: the call after OpenStateTimeout is admitted as a half-open
\* probe, and the breaker returns to closed, with its counts cleared, when
\* MaxHalfOpenRequests probes in a row have succeeded: at the first successful
\* probe if that is 1, at the fifth with the default of 5, and not before.
C14_ProbesClose ==
    [][/\ ProbeAdmitted
       /\ LET b == breakers'[breakerKey(ExecHost)] IN
          /\ b.state = "half-open" =>
                Cardinality(Succeeded(unit', b.generation)) < cfg.MaxHalfOpenRequests
          /\ (b.state = "closed" /\ b.generation > 0) =>
                /\ Cardinality(Succeeded(unit', b.generation - 1))
                      = cfg.MaxHalfOpenRequests
                /\ Failed(unit', b.generation - 1) = {}
          /\ (Breaker.state = "half-open" /\ b.state = "closed") =>
                b.counts = ZeroCounts]_vars

\* with the default of 5, the breaker has tripped, waited, and closed again
\* after five successful probes
C14_Witness ==
    /\ cfg = DefaultConfig
    /\ Breaker.state = "closed" /\ Breaker.generation = 3
    /\ Cardinality(Succeeded(unit, 2)) = 5

\* C15: when a probe of the current half-open episode fails, the breaker is
\* open again with a new OpenStateTimeout ahead, however many probes of that
\* episode succeeded before; a half-open breaker has no failed probe.
C15_ProbeFailureReopens ==
    [][/\ \A t \in Threads :
            LET u == unit[t] IN
            (u.pc = "inflight" /\ unit'[t].pc = "idle"
             /\ Last(u.log).state = "half-open" /\ Last(u.log).fails
             /\ Breaker.state = "half-open" /\ Breaker.generation = u.before) =>
                /\ breakers'[breakerKey(ExecHost)].state = "open"
                /\ breakers'[breakerKey(ExecHost)].expiry = "pending"
                /\ breakers'[breakerKey(ExecHost)].generation = u.before + 1
       /\ LET b == breakers'[breakerKey(ExecHost)] IN
          b.state = "half-open" => Failed(unit', b.generation) = {}]_vars

\* with the default of 5, four probes succeed, the fifth fails, the breaker is open
C15_Witness ==
    /\ cfg = DefaultConfig
    /\ Breaker.state = "open" /\ Breaker.generation = 3
    /\ Cardinality(Succeeded(unit, 2)) = 4
    /\ Cardinality(Failed(unit, 2)) = 1

\* C16: in one half-open episode at most MaxHalfOpenRequests calls are admitted,
\* overlapping or not; a call the half-open breaker rejects is not invoked,
\* gets the too-many-requests error, and comes after MaxHalfOpenRequests
\* admitted ones; no other call gets that error.
C16_HalfOpenLimit ==
    \A p \in Entries(unit) :
        LET e == unit[p[1]].log[p[2]] IN
        /\ e.state = "half-open" =>
            /\ Cardinality(Probes(unit, e.gen)) <= cfg.MaxHalfOpenRequests
            /\ ~e.invoked =>
                /\ e.err = ErrTooManyRequests
                /\ e.done
                /\ Cardinality(Probes(unit, e.gen)) = cfg.MaxHalfOpenRequests
        /\ e.err = ErrTooManyRequests => e.state = "half-open" /\ ~e.invoked

\* while one goroutine's probe is in flight, the other's call is rejected
C16_Witness ==
    \E t, o \in Threads :
        /\ t # o
        /\ unit[t].pc = "inflight"
        /\ Last(unit[t].log).state = "half-open"
        /\ Len(unit[o].log) > 0
        /\ Last(unit[o].log).err = ErrTooManyRequests
        /\ Last(unit[o].log).gen = Last(unit[t].log).gen

(***************************************************************************)
(* Properties of the registry.                                             *)
(***************************************************************************)
\* the GetOrCreate calls that have returned
Returned == {p \in Entries(unit) : unit[p[1]].log[p[2]].got # 0}

\* C17: all GetOrCreate calls for one host that have returned, overlapping or
\* not, returned the same instance, the one the registry holds, which is the
\* first that was stored: a call returns the instance it constructed itself only
\* if no call for that host returned before it began; the instance is named
\* after the host, and the one a call constructed itself is closed.
C17_SameInstance ==
    /\ \A p, q \in Returned :
          LET e == unit[p[1]].log[p[2]]
              f == unit[q[1]].log[q[2]]
          IN  e.host = f.host =>
                /\ e.got = f.got
                /\ (p[1] = q[1] /\ p[2] < q[2]) => f.got # f.made
    /\ \A p \in Returned :
          LET e == unit[p[1]].log[p[2]] IN
          /\ breakers[breakerKey(e.host)].created
          /\ breakers[breakerKey(e.host)].id = e.got
          /\ e.name = e.host
          /\ e.got = e.made => e.state = "closed"

\* both goroutines missed the Load for the same host and constructed a breaker;
\* both returned the one stored first, and a third call returned it again
C17_Witness ==
    \E t, o \in Threads :
        /\ t # o
        /\ Len(unit[t].log) >= 2 /\ Len(unit[o].log) >= 1
        /\ unit[t].pc = "idle" /\ unit[o].pc = "idle"
        /\ LET e == unit[t].log[1]
               f == unit[o].log[1]
               g == unit[t].log[2]
           IN  /\ e.host = f.host /\ g.host = e.host
               /\ e.made # 0 /\ f.made # 0
               /\ e.got = e.made /\ f.got = e.made
               /\ g.made = 0 /\ g.got = e.made

(***************************************************************************)
(* Properties of Post and of the resolver.                                 *)
(***************************************************************************)
\* C18: when an admitted attempt ends with Post reporting a response status
\* other than 200, the host's breaker, if still in the generation that admitted
\* it, counts one more failure, or it opens (the trip policy met, or a failed
\* half-open probe), as for a transport error.
C18_Non200IsBreakerFailure ==
    [][\A t \in Threads :
          LET u == unit[t] IN
          (u.pc = "inflight"
           /\ Len(unit'[t].log) = Len(u.log) + 1
           /\ Last(unit'[t].log).err = ErrNot200
           /\ currentState(breakers[breakerKey(Target(t))]).generation = u.before) =>
              LET b == breakers[breakerKey(Target(t))]
                  b1 == breakers'[breakerKey(Target(t))]
              IN  \/ b1.state = "open"
                  \/ b1.counts.TotalFailures = b.counts.TotalFailures + 1]_vars

\* C19: getNotificationPreferences that finds the channel's entry in the cache
\* returns that list with no error at once: the store is not called and the
\* cache is not written; a list taken from the cache never comes with a store
\* call.
C19_CacheHitReturnsAtOnce ==
    [][\A t \in Threads :
          /\ (unit[t].pc = "cacheGet" /\ Live(cache[unit[t].ch])
              /\ unit'[t] # unit[t]) =>
                /\ unit'[t].source = "cache"
                /\ unit'[t].resolveErr = Nil
                /\ unit'[t].prefs = cache[unit[t].ch].value
                /\ ~unit'[t].find.called
                /\ cache' = cache
          /\ unit'[t].source = "cache" => ~unit'[t].find.called]_vars

\* the second call takes from the cache what the first call put there
C19_Witness ==
    \E t \in Threads :
        /\ calls = 2
        /\ unit[t].source = "cache"
        /\ Len(unit[t].prefs) = 2
        /\ unit[t].pc = "done"

\* C20: after a cache miss, when the store lookup fails (no row for the
\* channel, a failed query, a cancelled context) the unit returns the store's
\* error as it is, the cache has no entry for the channel, no Post is made for
\* the channel, and the call fails: SendToBuyer with that error, SendToSeller
\* with a non-nil error.  A lookup that finds no row, or runs under a cancelled
\* context, is such a failure.
C20_StoreErrorPropagates ==
    \A t \in Threads :
        LET u == unit[t] IN
        /\ u.find.called =>
            /\ u.find.ctxCancelled => u.resolveErr = ErrCanceled
            /\ Query(deleted, u.ch) = <<>> =>
                  u.resolveErr \in {ErrRecordNotFound, ErrDatabase, ErrCanceled}
            /\ u.resolveErr \in {Nil, ErrRecordNotFound, ErrDatabase, ErrCanceled}
        /\ (u.find.called /\ u.resolveErr # Nil) =>
            /\ u.pc = "done"
            /\ u.err = u.resolveErr
            /\ u.log = <<>>
            /\ u.sendErr = NoError
            /\ ~Live(cache[u.ch])
            /\ (u.kind = "seller" /\ group.ret # NoError) => group.ret # Nil

\* the channel has no row: the first call was told so by the store, and so is
\* the second, which SendToSeller then fails with
C20_Witness ==
    /\ deleted = {1, 2}
    /\ calls = 2
    /\ unit[1].kind = "seller"
    /\ unit[1].find.called
    /\ unit[1].resolveErr = ErrRecordNotFound
    /\ group.ret = ErrRecordNotFound

\* the row a preference was read from, and the rows of a channel
RowOf(p) == CHOOSE r \in AllRows : Pref(r) = p

RowsOf(ch) == {r \in AllRows : r.provider_type = ch}

\* the non-deleted rows of channel ch, each once, by ascending priority
StoreList(q, ch) ==
    /\ {q[i] : i \in 1..Len(q)} = {Pref(r) : r \in {x \in RowsOf(ch) : x.id \notin deleted}}
    /\ Len(q) = Cardinality({x \in RowsOf(ch) : x.id \notin deleted})
    /\ \A i, j \in 1..Len(q) : i < j => RowOf(q[i]).priority <= RowOf(q[j]).priority

\* C21: the step of getNotificationPreferences that, after a miss, reads the
\* channel's list from the store makes one Cache.Set, for that channel and with
\* that list, which is then the channel's cache entry, leaves the other
\* channel's entry alone, and returns the list with a nil error: the channel's
\* non-deleted rows by ascending priority.
C21_MissThenStoreSetsOnce ==
    [][\A t \in Threads :
          (unit[t].pc = "find" /\ unit'[t].source = "store") =>
              LET u == unit'[t] IN
              /\ u.resolveErr = Nil
              /\ StoreList(u.prefs, u.ch)
              /\ u.sets = <<[key |-> u.ch, values |-> u.prefs, err |-> Nil]>>
              /\ cache'[u.ch] = [present |-> TRUE, value |-> u.prefs,
                                 expiry |-> "pending"]
              /\ \A ch \in Channels \ {u.ch} : cache'[ch] = cache[ch]]_vars

\* the two email endpoints were read from the store, cached and returned
C21_Witness ==
    \E t \in Threads :
        /\ unit[t].kind = "resolve" /\ unit[t].pc = "done"
        /\ unit[t].source = "store"
        /\ Len(unit[t].prefs) = 2
        /\ cache[EmailProvider].present
        /\ cache[EmailProvider].value = unit[t].prefs

\* C22: when Cache.Set returns an error after the store read succeeded, the
\* resolver has returned the store's list with a nil error, SendToBuyer has gone
\* on to dispatch over it, and what SendToBuyer returns is the dispatcher's
\* result: nil if an endpoint succeeded, never the cache's error.
C22_CacheSetErrorSwallowed ==
    \A t \in Threads :
        LET u == unit[t] IN
        /\ u.err # ErrCacheSet /\ u.resolveErr # ErrCacheSet
        /\ (Len(u.sets) > 0 /\ u.sets[1].err # Nil) =>
            /\ u.resolveErr = Nil
            /\ StoreList(u.prefs, u.ch)
            /\ InSend(u)
            /\ u.pc = "done" =>
                /\ u.err = u.sendErr
                /\ Len(u.log) > 0
                /\ u.err = Nil <=> Last(u.log).outcome = "ok"

\* Set failed, the second email endpoint answered 200, SendToBuyer returned nil
C22_Witness ==
    /\ unit[1].kind = "buyer" /\ unit[1].pc = "done"
    /\ Len(unit[1].sets) = 1 /\ unit[1].sets[1].err = ErrCacheSet
    /\ unit[1].err = Nil
    /\ Len(unit[1].log) = 2

\* C23 as stated: of two resolves of one channel made while nothing expires,
\* overlapping or one after the other, at most one calls the store.
C23_AtMostOneStoreCall ==
    \A t, o \in Threads :
        (t # o /\ unit[t].kind = "resolve" /\ unit[o].kind = "resolve"
         /\ unit[t].ch = unit[o].ch) =>
            ~(unit[t].find.called /\ unit[o].find.called)

C25_BuyerEmailOnly ==
    \A t \in Threads :
        LET u == unit[t] IN
        u.kind = "buyer" =>
            /\ u.ch = EmailProvider
            /\ ~cache[PushNotificationProvider].present
            /\ \A i \in 1..Len(u.sets) : u.sets[i].key = EmailProvider
            /\ \A i \in 1..Len(u.prefs) : u.prefs[i] \in {Pref(r) : r \in RowsOf(EmailProvider)}
            /\ Len(u.log) <= Len(u.prefs)
            /\ \A i \in 1..Len(u.log) :
                  u.log[i].url \in {r.host : r \in RowsOf(EmailProvider)}
            /\ u.pc = "done" =>
                /\ u.resolveErr # Nil => u.err = u.resolveErr /\ u.sendErr = NoError
                /\ u.resolveErr = Nil => u.err = u.sendErr /\ u.sendErr # NoError

\* both email endpoints were tried and failed; SendToBuyer returned the
\* dispatcher's error
C25_Witness ==
    /\ unit[1].kind = "buyer" /\ unit[1].pc = "done"
    /\ Len(unit[1].log) = 2
    /\ unit[1].err = ErrAggregate

\* C26 as stated: every Post call makes exactly one HTTP round trip and
\* returns nil exactly when that round trip succeeded with status 200.
C26_ExactlyOneAttempt ==
    \A t \in Threads : \A i \in 1..Len(unit[t].log) :
        LET a == unit[t].log[i] IN
        /\ a.invoked
        /\ a.err = Nil <=> a.outcome = "ok"

\* C26, amended: a Post call that the breaker admits makes one HTTP round
\* trip and one that it rejects makes none; Post returns nil exactly when a
\* round trip was made, the transport succeeded and the status was 200, and
\* otherwise the error of the case: the breaker's for a rejection, the
\* context's for a cancelled context, the transport's, or the status error.
C26_AtMostOneAttempt ==
    \A t \in Threads : \A i \in 1..Len(unit[t].log) :
        LET a == unit[t].log[i] IN
        /\ a.invoked <=> a.err \notin {ErrOpenState, ErrTooManyRequests}
        /\ a.invoked <=> a.outcome # "none"
        /\ ~a.invoked => a.state \in {"open", "half-open"}
        /\ a.err = Nil <=> (a.invoked /\ a.outcome = "ok")
        /\ a.outcome = "ctx" => a.err = ErrCanceled
        /\ a.outcome = "neterr" => a.err = ErrTransport
        /\ a.outcome = "status" => a.err = ErrNot200
        /\ (a.invoked /\ a.ctxBegin) => a.err = ErrCanceled

\* one sendNotification whose Post calls met a rejection, a non-200 status
\* and a 200
C26_Witness ==
    \E i, j, k \in 1..Len(unit[1].log) :
        /\ unit[1].log[i].outcome = "none"
        /\ unit[1].log[j].outcome = "status"
        /\ unit[1].log[k].outcome = "ok" /\ unit[1].log[k].err = Nil

\* C27: every Post call of sendNotification goes to the host of the endpoint
\* whose turn it is and carries that endpoint's own secret key, a row of the
\* unit's channel, with the to, title and message the caller gave; so on each
\* fallback attempt, and in both units of SendToSeller while they run side by
\* side.
C27_OwnSecretPerAttempt ==
    \A t \in Threads : \A i \in 1..Len(unit[t].log) :
        LET u == unit[t]
            a == u.log[i]
        IN  /\ i <= Len(u.prefs)
            /\ a.url = u.prefs[i].Host
            /\ a.req.SecretKey = u.prefs[i].SecretKey
            /\ a.secret = a.req.SecretKey
            /\ \E r \in RowsOf(u.ch) :
                  r.host = a.url /\ r.secret_key = a.req.SecretKey
            /\ \A r \in AllRows :
                  r.secret_key = a.req.SecretKey => r.host = a.url
            /\ a.req.To = CallerRequest.To
            /\ a.req.Title = CallerRequest.Title
            /\ a.req.Message = CallerRequest.Message

\* SendToSeller: the email unit fell back to its second endpoint while the
\* push unit posted to its own
C27_Witness ==
    /\ unit[1].kind = "seller" /\ unit[2].kind = "seller"
    /\ Len(unit[1].log) = 2 /\ Len(unit[2].log) = 1
    /\ unit[1].log[1].req.SecretKey = "s1"
    /\ unit[1].log[2].req.SecretKey = "s2"
    /\ unit[2].log[1].req.SecretKey = "s3"
    /\ unit[1].log[2].invoked /\ unit[2].log[1].invoked

\* NotifyHandler has just taken a request, whose body bound without error
Routed == http.pc # "service" /\ calls' = calls + 1 /\ http'.bindErr = Nil

ServiceUntouched == UNCHANGED <<cache, breakers, unit, callerCancelled, group>>

\* C28: NotifyHandler picks the service method by the exact recipient string:
\* for "buyer" it calls SendToBuyer once, and nothing else, with the bound to,
\* title and message; for "seller" SendToSeller once, likewise; for any other
\* recipient, "BUYER" and "Buyer" among them, it calls no service method and
\* answers 500 with error code E102.  A request makes no further call later.
C28_ExactRecipientRouting ==
    [][/\ Routed =>
           LET x == http' IN
           /\ x.recipient = "buyer" =>
                 /\ x.called = <<ServiceCall("SendToBuyer", CallerRequest)>>
                 /\ x.pc = "service"
                 /\ unit'[1].kind = "buyer" /\ unit'[1].pc = "cacheGet"
                 /\ unit'[2].pc = "idle"
           /\ x.recipient = "seller" =>
                 /\ x.called = <<ServiceCall("SendToSeller", CallerRequest)>>
                 /\ x.pc = "service"
                 /\ \A t \in Threads :
                       unit'[t].kind = "seller" /\ unit'[t].pc = "cacheGet"
           /\ x.recipient \notin {"buyer", "seller"} =>
                 /\ x.called = <<>>
                 /\ ServiceUntouched
                 /\ x.pc = "done"
                 /\ x.resp.status = 500
                 /\ x.resp.error_code = "E102"
       /\ http.pc = "service" => http'.called = http.called]_vars

\* a well-formed request for recipient "BUYER" was answered 500 E102 with no
\* service call
C28_Witness ==
    /\ http.pc = "done" /\ http.bindErr = Nil
    /\ http.recipient = "BUYER"
    /\ http.called = <<>>
    /\ http.resp = JSON(500, "E102", ErrNotSupported)

\* C29: a request whose body is not JSON, or lacks to, title or message (or
\* has it empty), is answered 422 with error code E101 at once, whatever the
\* recipient, and no service method is called for it.
C29_InvalidBodyIs422 ==
    [][(http.pc # "service" /\ calls' = calls + 1
        /\ \/ ~http'.body.wellFormed
           \/ http'.body.to \in {Missing, ""}
           \/ http'.body.title \in {Missing, ""}
           \/ http'.body.message \in {Missing, ""}) =>
           /\ http'.pc = "done"
           /\ http'.resp.status = 422
           /\ http'.resp.error_code = "E101"
           /\ http'.resp.message = http'.bindErr /\ http'.bindErr # Nil
           /\ http'.called = <<>>
           /\ ServiceUntouched]_vars

\* a buyer request without a title was answered 422
C29_Witness ==
    /\ http.pc = "done"
    /\ http.recipient = "buyer"
    /\ http.body = Body(TRUE, CallerRequest.To, Missing, CallerRequest.Message)
    /\ http.resp.status = 422 /\ http.resp.error_code = "E101"
    /\ http.called = <<>>

\* C30: the answer to a valid request for "buyer" or "seller" is decided by
\* what the service method returned: 200 exactly when it returned nil, and
\* otherwise 500 with error code E102 and the service error's text as message.
C30_StatusFollowsService ==
    (http.pc = "done" /\ http.bindErr = Nil
     /\ http.recipient \in {"buyer", "seller"}) =>
        /\ Len(http.called) = 1
        /\ http.ret = ServiceError /\ http.ret # NoError
        /\ http.resp.status \in {200, 500}
        /\ http.resp.status = 200 <=> http.ret = Nil
        /\ http.ret = Nil => http.resp = JSON(200, "-", "nofitication sent")
        /\ http.ret # Nil => http.resp = JSON(500, "E102", http.ret)

\* SendToSeller failed on every email endpoint and the answer carries its error
C30_Witness ==
    /\ http.pc = "done" /\ http.recipient = "seller"
    /\ http.ret = ErrAggregate
    /\ http.resp = JSON(500, "E102", ErrAggregate)

\* SendToBuyer returned nil and the answer is 200
C30_WitnessOK ==
    /\ http.pc = "done" /\ http.recipient = "buyer"
    /\ http.ret = Nil
    /\ http.resp.status = 200

(***************************************************************************)
(* Properties of the registry, the breaker's state machine, the store and  *)
(* the cache.                                                              *)
(***************************************************************************)
\* the GetOrCreate calls that constructed a breaker for host h
Constructed(h) ==
    {p \in Entries(unit) :
        unit[p[1]].log[p[2]].host = h /\ unit[p[1]].log[p[2]].made # 0}

\* C31: over all GetOrCreate calls, overlapping or not, at most one breaker
\* is ever constructed for a host.
C31_NoDoubleConstruction ==
    \A h \in Hosts : Cardinality(Constructed(h)) <= 1

\* the state changes gobreaker's state machine allows
Transitions ==
    { <<"closed", "open">>, <<"open", "half-open">>,
      <<"half-open", "closed">>, <<"half-open", "open">> }

\* C32: under Execute calls that succeed or fail, from one goroutine or two,
\* and elapsed timeouts, the breaker's state, both as stored and as State()
\* reports it, changes only closed -> open, open -> half-open, half-open ->
\* closed and half-open -> open, each time into a new generation; it leaves
\* open only once OpenStateTimeout has run out.
C32_LegalTransitions ==
    [][/\ Breaker.state # Breaker'.state =>
            /\ <<Breaker.state, Breaker'.state>> \in Transitions
            /\ Breaker'.generation = Breaker.generation + 1
            /\ Breaker.state = "open" => Breaker.expiry = "passed"
       /\ currentState(Breaker).state # currentState(Breaker').state =>
            <<currentState(Breaker).state, currentState(Breaker').state>>
                \in Transitions]_vars

\* the breaker has gone closed, open, half-open, open, half-open, closed
C32_Witness ==
    /\ Breaker.state = "closed"
    /\ Breaker.generation = 5
    /\ \E i, j \in 1..Len(Calls) :
          /\ i < j
          /\ Calls[i].state = "half-open" /\ Calls[i].err = ErrTransport
          /\ Calls[j].state = "half-open" /\ Calls[j].err = Nil

\* the non-deleted rows of channel ch
Active(ch) == {r \in RowsOf(ch) : r.id \notin deleted}

\* C33: the step on which FindByProviderType returns gives, with a nil error,
\* exactly the non-deleted rows of the requested channel by ascending
\* priority, and never an empty list; it gives the not-found error only when
\* the channel has no non-deleted row, and then, unless the context is
\* cancelled or the query fails, it gives that error; and sendNotification
\* posts to the endpoints of the list in the list's order.
C33_StoreListOrdered ==
    [][\A t \in Threads :
          LET u == unit'[t] IN
          /\ (unit[t].pc = "find" /\ u.pc # "find") =>
                /\ u.resolveErr = Nil =>
                      /\ StoreList(u.prefs, u.ch)
                      /\ Len(u.prefs) > 0
                /\ u.resolveErr = ErrRecordNotFound => Active(u.ch) = {}
                /\ Active(u.ch) = {} =>
                      /\ u.prefs = <<>>
                      /\ u.resolveErr \in {ErrRecordNotFound, ErrCanceled, ErrDatabase}
                      /\ ~CtxCancelled(t) => u.resolveErr # ErrCanceled
          /\ \A i \in 1..Len(u.log) :
                /\ i <= Len(u.prefs) /\ u.log[i].url = u.prefs[i].Host
                /\ \A j \in 1..Len(u.log) :
                      i < j => RowOf(u.prefs[i]).priority <= RowOf(u.prefs[j]).priority]_vars

\* the email list came from the store and SendToBuyer posted to the endpoint
\* of priority 1 and then to that of priority 2
C33_Witness ==
    /\ unit[1].kind = "buyer" /\ unit[1].source = "store"
    /\ Len(unit[1].log) = 2
    /\ RowOf(unit[1].prefs[1]).priority = 1 /\ RowOf(unit[1].prefs[2]).priority = 2
    /\ unit[1].log[1].url = RowOf(unit[1].prefs[1]).host
    /\ unit[1].log[2].url = RowOf(unit[1].prefs[2]).host

\* the email channel has no non-deleted row and the lookup returned not-found
C33_WitnessNotFound ==
    /\ Active(EmailProvider) = {}
    /\ unit[1].kind = "buyer" /\ unit[1].find.called
    /\ unit[1].resolveErr = ErrRecordNotFound

C35_ListsNeverModified ==
    [][/\ \A ch \in Channels :
            cache'[ch].present => StoreList(cache'[ch].value, ch)
       /\ \A t \in Threads :
            /\ (unit[t].pc \in {"send", "inflight"} /\ unit'[t] # unit[t]) =>
                  /\ cache' = cache
                  /\ unit'[t].prefs = unit[t].prefs
            /\ (unit'[t].pc \in {"send", "inflight"} /\ Live(cache'[unit'[t].ch])) =>
                  unit'[t].prefs = cache'[unit'[t].ch].value]_vars

\* the second call dispatched over the cached email list down to its second
\* endpoint, and the entry still holds both endpoints with their own secrets
C35_Witness ==
    /\ calls = 2
    /\ unit[1].source = "cache" /\ unit[1].ch = EmailProvider
    /\ Len(unit[1].log) = 2 /\ unit[1].pc = "done"
    /\ Live(cache[EmailProvider])
    /\ cache[EmailProvider].value = Query(deleted, EmailProvider)
    /\ cache[EmailProvider].value[2].SecretKey = "s2"

\* C36: when every cache lookup, store lookup and Post call returns, every
\* unit that has started returns, and SendToSeller returns from Wait; at any
\* moment a unit has made at most one Post per endpoint of its list, the i-th
\* Post to the i-th endpoint.
C36_Terminates ==
    /\ \A t \in Threads : Running(t) ~> (unit[t].pc = "done")
    /\ (unit[1].kind = "seller" /\ group.ret = NoError) ~> (group.ret # NoError)
    /\ [](\A t \in Threads :
            /\ Len(unit[t].log) <= Len(unit[t].prefs)
            /\ \A i \in 1..Len(unit[t].log) :
                  i <= Len(unit[t].prefs) /\ unit[t].log[i].url = unit[t].prefs[i].Host)

\* SendToSeller has returned after its email unit posted once to each of its
\* two endpoints and failed on both
C36_Witness ==
    /\ unit[1].kind = "seller" /\ group.ret # NoError
    /\ unit[1].pc = "done" /\ unit[2].pc = "done"
    /\ Len(unit[1].prefs) = 2 /\ Len(unit[1].log) = 2
    /\ unit[1].err = ErrAggregate

\* the calls admitted in generation g of the breaker in state un, and those of
\* them that have failed, or succeeded
Admitted(un, g) ==
    {p \in Entries(un) : un[p[1]].log[p[2]].gen = g /\ un[p[1]].log[p[2]].invoked}

FailedIn(un, g) ==
    {p \in Admitted(un, g) : un[p[1]].log[p[2]].done /\ un[p[1]].log[p[2]].fails}

SucceededIn(un, g) ==
    {p \in Admitted(un, g) : un[p[1]].log[p[2]].done /\ ~un[p[1]].log[p[2]].fails}

\* C37: while the breaker stays closed its generation stays and its counts
\* only grow; a closed breaker's counts are those of all calls admitted since
\* it became closed and of all their outcomes so far; and a closed breaker
\* opens only on the step on which a failing call returns, the trip predicate
\* holding for the counts with that failure, never on a success.
C37_ClosedCountsAccumulate ==
    [][LET b == Breaker
           b1 == Breaker'
       IN  /\ (b.state = "closed" /\ b1.state = "closed") =>
                /\ b1.generation = b.generation
                /\ b1.counts.Requests >= b.counts.Requests
                /\ b1.counts.TotalFailures >= b.counts.TotalFailures
                /\ b1.counts.TotalSuccesses >= b.counts.TotalSuccesses
           /\ b1.state = "closed" =>
                /\ b1.counts.Requests = Cardinality(Admitted(unit', b1.generation))
                /\ b1.counts.TotalFailures = Cardinality(FailedIn(unit', b1.generation))
                /\ b1.counts.TotalSuccesses = Cardinality(SucceededIn(unit', b1.generation))
           /\ (b.state = "closed" /\ b1.state # "closed") =>
                /\ b1.state = "open"
                /\ ReadyToTrip(cfg, countFailure(b.counts))
                /\ \E t \in Threads :
                      /\ unit[t].pc = "inflight" /\ unit'[t].pc = "idle"
                      /\ Last(unit'[t].log).fails
                      /\ Last(unit'[t].log).gen = b.generation
                      /\ Last(unit'[t].log).tripped]_vars

\* under the default settings a breaker that has seen a failure, three
\* successes and then a second failure is closed with all five calls counted
C37_Witness ==
    /\ cfg = DefaultConfig
    /\ Breaker.state = "closed" /\ Breaker.generation = 0
    /\ Breaker.counts.Requests = 5
    /\ Breaker.counts.TotalFailures = 2
    /\ Breaker.counts.TotalSuccesses = 3
    /\ Len(Calls) >= 5 /\ Calls[1].fails /\ Calls[5].fails

\* C38: when an admitted attempt ends because its context was cancelled, Post
\* returns the context's error and the host's breaker, if still in the
\* generation that admitted it, counts one more failure, or it opens (the trip
\* policy met, or a failed half-open probe); so is every attempt that
\* sendNotification goes on to make under the cancelled context.
C38_CancelledCountsAsFailure ==
    [][\A t \in Threads :
          LET u == unit[t] IN
          (u.pc = "inflight"
           /\ Len(unit'[t].log) = Len(u.log) + 1
           /\ Last(unit'[t].log).outcome = "ctx") =>
              LET b == breakers[breakerKey(Target(t))]
                  b1 == breakers'[breakerKey(Target(t))]
              IN  /\ Last(unit'[t].log).err = ErrCanceled
                  /\ Last(unit'[t].log).ctxEnd
                  /\ currentState(b).generation = u.before =>
                        \/ /\ b1.state = "open"
                           /\ b1.generation = currentState(b).generation + 1
                        \/ /\ b1.state = b.state
                           /\ b1.counts.TotalFailures = b.counts.TotalFailures + 1
                           /\ b1.counts.ConsecutiveFailures =
                                  b.counts.ConsecutiveFailures + 1]_vars

\* the first call's context was cancelled by its caller; its attempts failed
\* for that reason alone, the last of them on a host seen before, whose
\* breaker is now open
C38_Witness ==
    /\ calls = 1
    /\ Len(unit[1].log) = 3
    /\ \A i \in 1..3 : unit[1].log[i].outcome = "ctx" /\ unit[1].log[i].callerEnd
    /\ extractHost(unit[1].log[1].url) = extractHost(unit[1].log[3].url)
    /\ breakers[breakerKey(extractHost(unit[1].log[3].url))].state = "open"
    /\ breakers[breakerKey(extractHost(unit[1].log[2].url))].state = "closed"

\* C39: while the breaker is open and OpenStateTimeout has not run out, a
\* step changes nothing of it, its state, generation and counts included,
\* unless it is the timeout running out; an Execute call begun then is
\* rejected with ErrOpenState without its function being invoked; and the
\* breaker leaves open only after the timeout has run out, for half-open.
C39_OpenIsFrozen ==
    [][/\ (Breaker.state = "open" /\ Breaker.expiry = "pending") =>
            /\ \/ Breaker' = Breaker
               \/ Breaker' = [Breaker EXCEPT !.expiry = "passed"] /\ unit' = unit
            /\ calls' = calls + 1 =>
                  \E t \in Threads :
                      /\ Len(unit'[t].log) = Len(unit[t].log) + 1
                      /\ Last(unit'[t].log).err = ErrOpenState
                      /\ ~Last(unit'[t].log).invoked
                      /\ unit'[t].pc = "idle"
       /\ (Breaker.state = "open" /\ Breaker'.state # "open") =>
            Breaker.expiry = "passed" /\ Breaker'.state = "half-open"]_vars

\* the open breaker has rejected three calls in a row and its counts are
\* still those it opened with
C39_Witness ==
    /\ Breaker.state = "open" /\ Breaker.expiry = "pending"
    /\ Breaker.counts = ZeroCounts
    /\ \E i \in 1..Len(Calls) :
          /\ i + 2 <= Len(Calls)
          /\ \A j \in i..(i + 2) :
                /\ Calls[j].err = ErrOpenState
                /\ Calls[j].gen = Breaker.generation

====
